---------------------------- MODULE Spec2Model ----------------------------
(***************************************************************************)
(* Model of src/src/fit.cpp: the CAVI driver fit(), the residual energy    *)
(* compute_S() and the places where fit() calls the embedded optimizers.   *)
(*                                                                         *)
(* Numbers are integers.  Vectors are functions over 1..p (the source      *)
(* indexes from 0).  The three L-BFGS based updates (update_mu, update_s,  *)
(* update_a_b) and the sigmoid of update_g are modelled by the SET of      *)
(* points they may hand back: the source constrains the result only        *)
(* through its reparameterisations (s = exp(u), tau_a = exp(v), g =        *)
(* sigmoid(res)), and that is what the sets keep.                          *)
(***************************************************************************)
EXTENDS Integers, Sequences, FiniteSets

VARIABLES
    \* ---- arguments of fit() that the run never changes
    groups, niter, tol, track_elbo, track_elbo_every, tau_a0, tau_b0,
    \* ---- locals of fit()
    mu, s, g, mu_old, s_old, g_old, tau_a, tau_b, e_tau,
    num_iter, converged, elbo_values, iter, gi, pc, result,
    \* ---- history: iteration of the last write of every slot, groups swept
    \*      in this iteration, outcome of every convergence test, and whether
    \*      every update so far handed back its starting point
    muW, sW, gW, tauW, swept, tests, stationary,
    \* ---- a call of compute_S on its own: arguments and returned value
    cs, cs_S

vars == <<groups, niter, tol, track_elbo, track_elbo_every, tau_a0, tau_b0,
          mu, s, g, mu_old, s_old, g_old, tau_a, tau_b, e_tau,
          num_iter, converged, elbo_values, iter, gi, pc, result,
          muW, sW, gW, tauW, swept, tests, stationary,
          cs, cs_S>>

fitVars == <<groups, niter, tol, track_elbo, track_elbo_every, tau_a0, tau_b0,
             mu, s, g, mu_old, s_old, g_old, tau_a, tau_b, e_tau,
             num_iter, converged, elbo_values, iter, gi, pc, result,
          muW, sW, gW, tauW, swept, tests, stationary>>

argVars == <<groups, niter, tol, track_elbo, track_elbo_every, tau_a0, tau_b0>>

histVars == <<muW, sW, gW, tauW, swept, tests, stationary>>

----------------------------------------------------------------------------
(* Bounds of the model *)

MaxIter  == 2      \* niter ranges over 0..MaxIter
MaxEvery == 2      \* track_elbo_every ranges over 1..MaxEvery

(* Inputs and numeric domains *)

GroupVecs == { <<1, 1>>, <<2, 1>> }                 \* groups, p = 2
TolVals   == {0, 2}                                 \* tol
MuVals    == {0, 1}                                 \* points update_mu may return
SVals     == {1, 2}                                 \* exp(u), u finite
GVals     == {0, 1}                                 \* sigmoid(res), saturated
TauAVals  == {1}                                    \* exp(pars(0,0))
TauBVals  == {0, 1}                                 \* pars(1,0), unconstrained
Tau0Vals  == {1}                                    \* tau_a0, tau_b0 > 0

X == << <<1, 0>>, <<1, 1>> >>                       \* n x p design matrix
y == <<1, 2>>                                       \* response, length n

\* caller-supplied starting points: mu, s (one with a non-positive entry) and
\* g (one that differs inside a group of two)
MuArgs == { <<0, 0>>, <<0, 1>> }
SArgs  == { <<1, 1>>, <<2, 1>>, <<0, 1>> }
GArgs  == { <<0, 0>>, <<0, 1>>, <<1, 1>> }

NoResult == [kind |-> "none"]

----------------------------------------------------------------------------
(* Arithmetic helpers *)

abs(a) == IF a < 0 THEN -a ELSE a

RECURSIVE SumTo(_, _)
SumTo(f, k) == IF k = 0 THEN 0 ELSE f[k] + SumTo(f, k - 1)

\* sum(v) of a vector
sum(v) == SumTo(v, Len(v))

\* sum(abs(a - b)) of two vectors of one length
sumabsdiff(a, b) == sum([i \in 1..Len(a) |-> abs(a[i] - b[i])])

\* dot(a, b)
dot(a, b) == sum([i \in 1..Len(a) |-> a[i] * b[i]])

RECURSIVE SortedSeq(_)
SortedSeq(S) ==
    IF S = {} THEN <<>>
    ELSE LET m == CHOOSE a \in S : \A b \in S : a <= b
         IN  <<m>> \o SortedSeq(S \ {m})

Range(v) == { v[i] : i \in 1..Len(v) }

\* arma::unique(v): the distinct elements, ascending
unique(v) == SortedSeq(Range(v))

\* arma::find(groups == group) and arma::find(groups != group), as index sets
find_eq(v, a)  == { i \in 1..Len(v) : v[i] = a }
find_neq(v, a) == { i \in 1..Len(v) : v[i] # a }


----------------------------------------------------------------------------
(* The fixed hyperparameters of the call and the precomputed cross products *)

lambda         == 1                     \* group penalty strength
a0             == 1
b0             == 1
w              == <<a0, a0 + b0>>       \* a0 / (a0 + b0), as a fraction
track_elbo_mcn == 1

n == Len(X)                             \* X.n_rows
p == Len(groups)                        \* X.n_cols, one column per coefficient

\* xtx = X.t() * X
xtx == [i \in 1..p |-> [j \in 1..p |->
           sum([r \in 1..n |-> X[r][i] * X[r][j]])]]

\* yty = dot(y, y)
yty == dot(y, y)

\* yx = (y.t() * X).t()
yx == [i \in 1..p |-> sum([r \in 1..n |-> y[r] * X[r][i]])]

----------------------------------------------------------------------------
(* compute_S: the expected squared residual *)

\* variant of S_term: g[i] * g[j] inside a group too
S_term_gg(xx, gr, m, sd, gm, i, j) ==
      (IF i = j THEN xx[i][i] * gm[i] * (sd[i] * sd[i] + m[i] * m[i]) ELSE 0)
    + (IF (i # j) /\ (gr[i] = gr[j]) THEN xx[i][j] * gm[i] * gm[j] * m[i] * m[j] ELSE 0)
    + (IF (i # j) /\ (gr[i] # gr[j]) THEN xx[i][j] * gm[i] * gm[j] * m[i] * m[j] ELSE 0)

\* what one pass of the inner loop body adds to xtx_bi_bj: the three ifs of
\* the source, whose conditions exclude one another
S_term(xx, gr, m, sd, gm, i, j) ==
      (IF i = j THEN xx[i][i] * gm[i] * (sd[i] * sd[i] + m[i] * m[i]) ELSE 0)
    + (IF (i # j) /\ (gr[i] = gr[j]) THEN xx[i][j] * gm[i] * m[i] * m[j] ELSE 0)
    + (IF (i # j) /\ (gr[i] # gr[j]) THEN xx[i][j] * gm[i] * gm[j] * m[i] * m[j] ELSE 0)

compute_S(yy, yxv, xx, gr, m, sd, gm, pp) ==
    LET xtx_bi_bj == sum([i \in 1..pp |->
                          sum([j \in 1..pp |-> S_term(xx, gr, m, sd, gm, i, j)])])
    IN  yy + xtx_bi_bj - 2 * dot(yxv, [i \in 1..pp |-> gm[i] * m[i]])

----------------------------------------------------------------------------
(* The points the per-group updates and the hyperparameter update may return *)

\* update_mu: L-BFGS over m, started at mu(G); any point of the domain
update_mu(G, Gc, xx, yxv, m, sd, gm, et, lam) == [G -> MuVals]

\* update_s: returns exp(u); u starts at log(s(G)), which is -inf or NaN for a
\* non-positive entry, and exp of that is not a positive number (written 0)
update_s(G, xx, m, sd, et, lam) ==
    { u \in [G -> SVals \cup {0}] : \A i \in G : (u[i] = 0) <=> (sd[i] <= 0) }

\* update_g: sigmoid(res), one scalar for the group
update_g(G, Gc, xx, yxv, m, sd, gm, et, lam, ww) == GVals

\* update_a_b: tau_a = exp(pars(0,0)), tau_b = pars(1,0) as the optimizer left it
update_a_b(ta, tb, ta0, tb0, SS, nn) ==
    { <<a, b>> : a \in TauAVals, b \in TauBVals }

\* elbo(): one scalar per call
elbo(yy, XX, gr, m, sd, gm, lam, aa, bb, ta, tb, mcn) == 0

----------------------------------------------------------------------------
(* fit(): the state when the outer loop is first reached *)

ZeroVec(gr) == [i \in 1..Len(gr) |-> 0]

\* variant of ugroups: the distinct ids in order of first appearance
ugroups_as_listed ==
    LET first(i) == \A k \in 1..(i - 1) : groups[k] # groups[i]
        RECURSIVE pick(_)
        pick(i) == IF i > Len(groups) THEN <<>>
                   ELSE (IF first(i) THEN <<groups[i]>> ELSE <<>>) \o pick(i + 1)
    IN  pick(1)

\* const uvec ugroups = arma::unique(groups): the order the sweep visits
ugroups == unique(groups)

group == ugroups[gi]                    \* the loop variable of the sweep
G     == find_eq(groups, group)
Gc    == find_neq(groups, group)

InitFit ==
    /\ groups \in GroupVecs
    /\ niter \in 0..MaxIter
    /\ tol \in TolVals
    /\ track_elbo \in BOOLEAN
    /\ track_elbo_every \in (IF track_elbo THEN 1..MaxEvery ELSE {1})
    /\ tau_a0 \in Tau0Vals
    /\ tau_b0 \in Tau0Vals
    /\ mu \in MuArgs
    /\ s \in SArgs
    /\ g \in GArgs
    /\ mu_old = <<>> /\ s_old = <<>> /\ g_old = <<>>
    /\ tau_a = tau_a0 /\ tau_b = tau_b0 /\ e_tau = <<tau_a0, tau_b0>>
    /\ num_iter = niter
    /\ converged = FALSE
    /\ elbo_values = <<>>
    /\ iter = 1
    /\ gi = 0
    /\ pc = "loop"
    /\ result = NoResult
    /\ muW = ZeroVec(groups) /\ sW = ZeroVec(groups) /\ gW = ZeroVec(groups)
    /\ tauW = 0
    /\ swept = <<>>
    /\ tests = <<>>
    /\ stationary = TRUE

NoCall == [kind |-> "none"]

Init == InitFit /\ cs = NoCall /\ cs_S = 0

----------------------------------------------------------------------------
(* fit(): one action per statement of the outer loop *)

\* for (iter = 1; iter <= niter; ...) { mu_old = mu; ...; e_tau = tau_a / tau_b;
LoopEnter ==
    /\ pc = "loop"
    /\ iter <= niter
    /\ mu_old' = mu /\ s_old' = s /\ g_old' = g
    /\ e_tau' = <<tau_a, tau_b>>
    /\ gi' = 1
    /\ swept' = <<>>
    /\ pc' = "update_mu"
    /\ UNCHANGED <<argVars, mu, s, g, tau_a, tau_b, num_iter, converged,
                   elbo_values, iter, result, muW, sW, gW, tauW, tests, stationary, cs, cs_S>>

\* the loop condition fails
LoopExit ==
    /\ pc = "loop"
    /\ ~(iter <= niter)
    /\ pc' = "final"
    /\ UNCHANGED <<argVars, mu, s, g, mu_old, s_old, g_old, tau_a, tau_b, e_tau,
                   num_iter, converged, elbo_values, iter, gi, result,
                   histVars, cs, cs_S>>

\* mu(G) = update_mu(G, Gc, xtx, yx, mu, s, g, e_tau, lambda);
UpdateMu ==
    /\ pc = "update_mu"
    /\ \E m \in update_mu(G, Gc, xtx, yx, mu, s, g, e_tau, lambda) :
          mu' = [i \in 1..p |-> IF i \in G THEN m[i] ELSE mu[i]]
    /\ muW' = [i \in 1..p |-> IF i \in G THEN iter ELSE muW[i]]
    /\ stationary' = (stationary /\ mu' = mu)
    /\ pc' = "update_s"
    /\ UNCHANGED <<argVars, s, g, mu_old, s_old, g_old, tau_a, tau_b, e_tau,
                   num_iter, converged, elbo_values, iter, gi, result,
                   sW, gW, tauW, swept, tests, cs, cs_S>>

\* s(G) = update_s(G, xtx, mu, s, e_tau, lambda);
UpdateS ==
    /\ pc = "update_s"
    /\ \E u \in update_s(G, xtx, mu, s, e_tau, lambda) :
          s' = [i \in 1..p |-> IF i \in G THEN u[i] ELSE s[i]]
    /\ sW' = [i \in 1..p |-> IF i \in G THEN iter ELSE sW[i]]
    /\ stationary' = (stationary /\ s' = s)
    /\ pc' = "update_g"
    /\ UNCHANGED <<argVars, mu, g, mu_old, s_old, g_old, tau_a, tau_b, e_tau,
                   num_iter, converged, elbo_values, iter, gi, result,
                   muW, gW, tauW, swept, tests, cs, cs_S>>

\* variant of UpdateG: tg written to the first member of G only
UpdateG_first_only ==
    /\ pc = "update_g"
    /\ \E tg \in update_g(G, Gc, xtx, yx, mu, s, g, e_tau, lambda, w) :
          g' = [j \in 1..p |-> IF j \in G /\ (\A k \in G : j <= k) THEN tg ELSE g[j]]
    /\ gW' = [j \in 1..p |-> IF j \in G THEN iter ELSE gW[j]]
    /\ swept' = Append(swept, group)
    /\ stationary' = (stationary /\ g' = g)
    /\ IF gi < Len(ugroups)
          THEN gi' = gi + 1 /\ pc' = "update_mu"
          ELSE gi' = gi /\ pc' = "update_tau"
    /\ UNCHANGED <<argVars, mu, s, mu_old, s_old, g_old, tau_a, tau_b, e_tau,
                   num_iter, converged, elbo_values, iter, result,
                   muW, sW, tauW, tests, cs, cs_S>>

\* double tg = update_g(...); for (uword j : G) g(j) = tg;   and the loop step
UpdateG ==
    /\ pc = "update_g"
    /\ \E tg \in update_g(G, Gc, xtx, yx, mu, s, g, e_tau, lambda, w) :
          g' = [j \in 1..p |-> IF j \in G THEN tg ELSE g[j]]
    /\ gW' = [j \in 1..p |-> IF j \in G THEN iter ELSE gW[j]]
    /\ swept' = Append(swept, group)
    /\ stationary' = (stationary /\ g' = g)
    /\ IF gi < Len(ugroups)
          THEN gi' = gi + 1 /\ pc' = "update_mu"
          ELSE gi' = gi /\ pc' = "update_tau"
    /\ UNCHANGED <<argVars, mu, s, mu_old, s_old, g_old, tau_a, tau_b, e_tau,
                   num_iter, converged, elbo_values, iter, result,
                   muW, sW, tauW, tests, cs, cs_S>>

\* double S = compute_S(...); update_a_b(tau_a, tau_b, tau_a0, tau_b0, S, n);
UpdateTau ==
    /\ pc = "update_tau"
    /\ LET S == compute_S(yty, yx, xtx, groups, mu, s, g, p)
       IN  \E ab \in update_a_b(tau_a, tau_b, tau_a0, tau_b0, S, n) :
              /\ tau_a' = ab[1]
              /\ tau_b' = ab[2]
    /\ tauW' = iter
    /\ stationary' = (stationary /\ tau_a' = tau_a /\ tau_b' = tau_b)
    /\ pc' = "interrupt"
    /\ UNCHANGED <<argVars, mu, s, g, mu_old, s_old, g_old, e_tau,
                   num_iter, converged, elbo_values, iter, gi, result,
                   muW, sW, gW, swept, tests, cs, cs_S>>

\* variant of CheckUserInterrupt_throws: the snapshot is returned
CheckUserInterrupt_returns ==
    /\ pc = "interrupt"
    /\ \E pending \in BOOLEAN : pending
    /\ pc' = "interrupted"
    /\ result' = [kind |-> "list", mu |-> mu, sigma |-> s, gamma |-> g,
                  tau_a |-> tau_a, tau_b |-> tau_b, converged |-> converged,
                  iterations |-> iter, elbo |-> elbo_values]
    /\ UNCHANGED <<argVars, mu, s, g, mu_old, s_old, g_old, tau_a, tau_b, e_tau,
                   num_iter, converged, elbo_values, iter, gi,
                   histVars, cs, cs_S>>

\* Rcpp::checkUserInterrupt(); with an interrupt pending: it throws, fit() is
\* unwound and nothing is returned
CheckUserInterrupt_throws ==
    /\ pc = "interrupt"
    /\ \E pending \in BOOLEAN : pending
    /\ pc' = "interrupted"
    /\ UNCHANGED <<argVars, mu, s, g, mu_old, s_old, g_old, tau_a, tau_b, e_tau,
                   num_iter, converged, elbo_values, iter, gi, result,
                   histVars, cs, cs_S>>

\* Rcpp::checkUserInterrupt(); with no interrupt pending: returns
CheckUserInterrupt_passes ==
    /\ pc = "interrupt"
    /\ \E pending \in BOOLEAN : ~pending
    /\ pc' = "elbo"
    /\ UNCHANGED <<argVars, mu, s, g, mu_old, s_old, g_old, tau_a, tau_b, e_tau,
                   num_iter, converged, elbo_values, iter, gi, result,
                   histVars, cs, cs_S>>

\* variant of TrackElbo: the stride counted from the iteration before
TrackElbo_before ==
    /\ pc = "elbo"
    /\ elbo_values' =
          IF track_elbo /\ ((iter - 1) % track_elbo_every = 0)
             THEN Append(elbo_values,
                         elbo(y, X, groups, mu, s, g, lambda, a0, b0,
                              tau_a, tau_b, track_elbo_mcn))
             ELSE elbo_values
    /\ pc' = "converge"
    /\ UNCHANGED <<argVars, mu, s, g, mu_old, s_old, g_old, tau_a, tau_b, e_tau,
                   num_iter, converged, iter, gi, result,
                   histVars, cs, cs_S>>

\* if (track_elbo && (iter % track_elbo_every == 0)) elbo_values.push_back(e);
TrackElbo ==
    /\ pc = "elbo"
    /\ elbo_values' =
          IF track_elbo /\ (iter % track_elbo_every = 0)
             THEN Append(elbo_values,
                         elbo(y, X, groups, mu, s, g, lambda, a0, b0,
                              tau_a, tau_b, track_elbo_mcn))
             ELSE elbo_values
    /\ pc' = "converge"
    /\ UNCHANGED <<argVars, mu, s, g, mu_old, s_old, g_old, tau_a, tau_b, e_tau,
                   num_iter, converged, iter, gi, result,
                   histVars, cs, cs_S>>

\* variant of converge_test: mu_old compared with s
converge_test_typo ==
    /\ sumabsdiff(mu_old, s) < tol
    /\ sumabsdiff(s_old, s) < tol
    /\ sumabsdiff(g_old, g) < tol

\* sum(abs(mu_old - mu)) < tol && sum(abs(s_old - s)) < tol &&
\* sum(abs(g_old - g)) < tol
converge_test ==
    /\ sumabsdiff(mu_old, mu) < tol
    /\ sumabsdiff(s_old, s) < tol
    /\ sumabsdiff(g_old, g) < tol

\* variant of CheckConvergence: num_iter = iter left out
CheckConvergence_keeps_num_iter ==
    /\ pc = "converge"
    /\ tests' = Append(tests, converge_test)
    /\ IF converge_test
          THEN /\ converged' = TRUE
               /\ pc' = "final"
               /\ UNCHANGED <<num_iter, iter>>
          ELSE /\ iter' = iter + 1
               /\ pc' = "loop"
               /\ UNCHANGED <<num_iter, converged>>
    /\ UNCHANGED <<argVars, mu, s, g, mu_old, s_old, g_old, tau_a, tau_b, e_tau,
                   elbo_values, gi, result, muW, sW, gW, tauW, swept, stationary, cs, cs_S>>

\* if (test) { num_iter = iter; converged = true; break; }   else ++iter
CheckConvergence ==
    /\ pc = "converge"
    /\ tests' = Append(tests, converge_test)
    /\ IF converge_test
          THEN /\ num_iter' = iter
               /\ converged' = TRUE
               /\ pc' = "final"
               /\ UNCHANGED iter
          ELSE /\ iter' = iter + 1
               /\ pc' = "loop"
               /\ UNCHANGED <<num_iter, converged>>
    /\ UNCHANGED <<argVars, mu, s, g, mu_old, s_old, g_old, tau_a, tau_b, e_tau,
                   elbo_values, gi, result, muW, sW, gW, tauW, swept, stationary, cs, cs_S>>

\* variant of FinalElbo: sampled only when the loop ran
FinalElbo_if_loop_ran ==
    /\ pc = "final"
    /\ elbo_values' =
          IF track_elbo /\ niter >= 1
             THEN Append(elbo_values,
                         elbo(y, X, groups, mu, s, g, lambda, a0, b0,
                              tau_a, tau_b, track_elbo_mcn))
             ELSE elbo_values
    /\ pc' = "return"
    /\ UNCHANGED <<argVars, mu, s, g, mu_old, s_old, g_old, tau_a, tau_b, e_tau,
                   num_iter, converged, iter, gi, result,
                   histVars, cs, cs_S>>

\* after the loop: if (track_elbo) elbo_values.push_back(e);
FinalElbo ==
    /\ pc = "final"
    /\ elbo_values' =
          IF track_elbo
             THEN Append(elbo_values,
                         elbo(y, X, groups, mu, s, g, lambda, a0, b0,
                              tau_a, tau_b, track_elbo_mcn))
             ELSE elbo_values
    /\ pc' = "return"
    /\ UNCHANGED <<argVars, mu, s, g, mu_old, s_old, g_old, tau_a, tau_b, e_tau,
                   num_iter, converged, iter, gi, result,
                   histVars, cs, cs_S>>

\* return Rcpp::List::create(...)
Return ==
    /\ pc = "return"
    /\ result' = [kind |-> "list", mu |-> mu, sigma |-> s, gamma |-> g,
                  tau_a |-> tau_a, tau_b |-> tau_b, converged |-> converged,
                  iterations |-> num_iter, elbo |-> elbo_values]
    /\ pc' = "done"
    /\ UNCHANGED <<argVars, mu, s, g, mu_old, s_old, g_old, tau_a, tau_b, e_tau,
                   num_iter, converged, elbo_values, iter, gi,
                   histVars, cs, cs_S>>

Next ==
    \/ LoopEnter
    \/ LoopExit
    \/ UpdateMu
    \/ UpdateS
    \/ UpdateG
    \/ UpdateTau
    \/ CheckUserInterrupt_throws
    \/ CheckUserInterrupt_passes
    \/ TrackElbo
    \/ CheckConvergence
    \/ FinalElbo
    \/ Return

Spec == Init /\ [][Next]_vars

----------------------------------------------------------------------------
(* compute_S called on its own, on every argument tuple of a bounded set *)

PVals == 1..3                           \* p <= 3

XtxArgs(pp) ==
    { [i \in 1..pp |-> [j \in 1..pp |-> 3 * (i - 1) + j]],
      [i \in 1..pp |-> [j \in 1..pp |->
          IF i = j THEN 2 ELSE IF abs(i - j) = 1 THEN 1 ELSE 0]] }

YxArgs(pp) == { [i \in 1..pp |-> i], [i \in 1..pp |-> 1 - i] }

CSArgs ==
    UNION { [kind : {"call"}, p : {pp}, yty : {0, 5}, yx : YxArgs(pp),
             xtx : XtxArgs(pp), groups : [1..pp -> 1..2],
             mu : [1..pp -> {-1, 0, 2}], s : [1..pp -> {1, 2}],
             g : [1..pp -> {0, 1}]] : pp \in PVals }

\* fit() is not running
FitIdle ==
    /\ groups = <<1, 1>> /\ niter = 0 /\ tol = 0
    /\ track_elbo = FALSE /\ track_elbo_every = 1
    /\ tau_a0 = 1 /\ tau_b0 = 1
    /\ mu = <<0, 0>> /\ s = <<1, 1>> /\ g = <<0, 0>>
    /\ mu_old = <<>> /\ s_old = <<>> /\ g_old = <<>>
    /\ tau_a = 1 /\ tau_b = 1 /\ e_tau = <<1, 1>>
    /\ num_iter = 0 /\ converged = FALSE /\ elbo_values = <<>>
    /\ iter = 1 /\ gi = 0 /\ pc = "idle" /\ result = NoResult
    /\ muW = <<0, 0>> /\ sW = <<0, 0>> /\ gW = <<0, 0>> /\ tauW = 0
    /\ swept = <<>> /\ tests = <<>> /\ stationary = TRUE

InitComputeS == FitIdle /\ cs \in CSArgs /\ cs_S = 0

CallComputeS ==
    /\ cs.kind = "call"
    /\ cs_S' = compute_S(cs.yty, cs.yx, cs.xtx, cs.groups, cs.mu, cs.s, cs.g, cs.p)
    /\ cs' = [cs EXCEPT !.kind = "returned"]
    /\ UNCHANGED fitVars

SpecS == InitComputeS /\ [][CallComputeS]_vars

----------------------------------------------------------------------------
(* Properties *)

Returned == pc = "done"

\* v has one value on every group
ConstantInGroups(v) ==
    \A i, j \in 1..Len(v) : groups[i] = groups[j] => v[i] = v[j]

\* the sweep, the hyperparameter update and the poll of this iteration are over
AfterSweep == pc \in {"update_tau", "interrupt", "elbo", "converge"}

\* number of in-loop ELBO samples of a run that executed iterations 1..k
InLoopSamples(k) ==
    IF track_elbo
       THEN Cardinality({ i \in 1..k : i % track_elbo_every = 0 })
       ELSE 0

\* C1: with tracking on and stride k >= 1 the returned ELBO sequence has
\* floor(iterations / k) + 1 entries, iterations being the returned count.
C1_ElboLength ==
    (Returned /\ track_elbo) =>
        Len(result.elbo) = (result.iterations \div track_elbo_every) + 1

C1_Witness ==
    /\ Returned /\ track_elbo /\ track_elbo_every = 2
    /\ result.converged /\ result.iterations = 2 /\ Len(result.elbo) = 2

\* C2: exhaustion of the budget is reported as converged = false with
\* iterations = niter; converged = true only if the test passed in iteration
\* `iterations`, the first one in which it passed and the last one executed.
C2_OuterNonConvergence ==
    Returned =>
        /\ (Len(tests) = niter /\ \A k \in 1..niter : ~tests[k])
              => (~result.converged /\ result.iterations = niter)
        /\ result.converged
              => /\ 1 <= result.iterations /\ result.iterations <= niter
                 /\ Len(tests) = result.iterations
                 /\ tests[result.iterations]
                 /\ \A k \in 1..(result.iterations - 1) : ~tests[k]

C2_Witness ==
    /\ Returned /\ niter >= 2 /\ tol > 0
    /\ ~result.converged /\ result.iterations = niter /\ Len(tests) = niter

\* every slot of mu, s, g was last written in the current iteration, by a
\* complete sweep, and so were tau_a, tau_b
WholeIteration ==
    /\ \A j \in 1..p : muW[j] = iter /\ sW[j] = iter /\ gW[j] = iter
    /\ tauW = iter
    /\ Len(swept) = Cardinality(Range(groups))

InvalidS == iter = 1 /\ s_old # <<>> /\ \E j \in 1..p : s_old[j] <= 0

\* C4: a call whose initial s has a non-positive entry is rejected before the
\* loop: no update of mu, s, g, tau_a, tau_b is executed.
C4_RejectsInvalidInput ==
    InvalidS =>
        /\ \A j \in 1..p : muW[j] = 0 /\ sW[j] = 0 /\ gW[j] = 0
        /\ tauW = 0

\* C5 (as stated): g is constant within each group at the end of every outer
\* iteration and in the returned result, for every niter.
C5_GConstantAlways ==
    /\ AfterSweep => ConstantInGroups(g)
    /\ Returned => ConstantInGroups(result.gamma)

\* C5 (amended): g is constant within each group at the end of every outer
\* iteration, and in the returned result when niter >= 1.
C5_GConstantAfterIteration ==
    /\ AfterSweep => ConstantInGroups(g)
    /\ (Returned /\ niter >= 1) => ConstantInGroups(result.gamma)

C5_Witness ==
    /\ Returned /\ niter = 1 /\ groups = <<1, 1>>
    /\ g_old[1] # g_old[2]
    /\ result.gamma[1] = result.gamma[2]

\* C6: tau_a > 0 and tau_b > 0 after every update_a_b call, and the e_tau the
\* group updates use is positive and finite.
C6_TauPositive ==
    /\ tau_a > 0
    /\ tau_b > 0
    /\ e_tau[1] > 0 /\ e_tau[2] > 0

\* the result of a run whose updates all handed back their starting point
FixedPointResult ==
    /\ result.converged
    /\ result.iterations = 1
    /\ result.mu = mu_old /\ result.sigma = s_old /\ result.gamma = g_old

\* C7 (as stated): started at a stationary point with niter >= 1, fit() leaves
\* mu, s, g unchanged and returns converged with iterations = 1, for every tol.
C7_FixedPointAnyTol ==
    (Returned /\ stationary /\ niter >= 1) => FixedPointResult

\* C7 (amended): the same for every tol > 0.
C7_FixedPointPositiveTol ==
    (Returned /\ stationary /\ niter >= 1 /\ tol > 0) => FixedPointResult

C7_Witness ==
    /\ Returned /\ stationary /\ niter >= 2 /\ tol > 0
    /\ result.converged /\ result.iterations = 1

\* C8: every group id is swept once per iteration in ascending order of id;
\* when a group is updated, the groups with a smaller id hold the values
\* written in this iteration and those with a larger id the values of the
\* previous one; the scale update sees the new mean, the inclusion update the
\* new mean and scale.
C8_ImmediateIncorporation ==
    /\ pc \in {"update_mu", "update_s", "update_g"} =>
          \A j \in 1..p :
             /\ groups[j] < group =>
                   (muW[j] = iter /\ sW[j] = iter /\ gW[j] = iter)
             /\ groups[j] > group =>
                   (muW[j] = iter - 1 /\ sW[j] = iter - 1 /\ gW[j] = iter - 1)
    /\ pc = "update_mu" =>
          \A j \in G : muW[j] = iter - 1 /\ sW[j] = iter - 1 /\ gW[j] = iter - 1
    /\ pc = "update_s" =>
          \A j \in G : muW[j] = iter /\ sW[j] = iter - 1 /\ gW[j] = iter - 1
    /\ pc = "update_g" =>
          \A j \in G : muW[j] = iter /\ sW[j] = iter /\ gW[j] = iter - 1
    /\ pc = "update_tau" => swept = SortedSeq(Range(groups))

C8_Witness ==
    /\ pc = "update_mu" /\ gi = 2 /\ iter = 2
    /\ groups = <<2, 1>>
    /\ mu[2] # mu_old[2] /\ g[2] # g_old[2]

\* the three cases of a pair of coefficient indices
SCase(c, k, i, j) ==
    CASE k = 1 -> i = j
      [] k = 2 -> i # j /\ c.groups[i] = c.groups[j]
      [] k = 3 -> i # j /\ c.groups[i] # c.groups[j]

contribution(c, i, j) ==
    CASE SCase(c, 1, i, j) ->
            c.xtx[i][i] * c.g[i] * (c.s[i] * c.s[i] + c.mu[i] * c.mu[i])
      [] SCase(c, 2, i, j) ->
            c.xtx[i][j] * c.g[i] * c.mu[i] * c.mu[j]
      [] SCase(c, 3, i, j) ->
            c.xtx[i][j] * c.g[i] * c.g[j] * c.mu[i] * c.mu[j]

RECURSIVE SumPairs(_, _)
SumPairs(c, P) ==
    IF P = {} THEN 0
    ELSE LET q == CHOOSE q \in P : TRUE
         IN  contribution(c, q[1], q[2]) + SumPairs(c, P \ {q})

RECURSIVE SumOver(_, _)
SumOver(f, D) ==
    IF D = {} THEN 0
    ELSE LET d == CHOOSE d \in D : TRUE IN f[d] + SumOver(f, D \ {d})

S_reference(c) ==
    c.yty + SumPairs(c, (1..c.p) \X (1..c.p))
          - 2 * SumOver([i \in 1..c.p |-> c.yx[i] * c.g[i] * c.mu[i]], 1..c.p)

\* C9: compute_S returns yty plus the sum over all ordered pairs of the
\* contribution of the one case that applies to the pair, minus 2 yx'(g o mu).
C9_ComputeS ==
    cs.kind = "returned" =>
        /\ cs_S = S_reference(cs)
        /\ \A i, j \in 1..cs.p :
              Cardinality({ k \in 1..3 : SCase(cs, k, i, j) }) = 1

C9_Witness ==
    /\ cs.kind = "returned" /\ cs.p = 3 /\ cs.groups = <<1, 1, 2>>
    /\ cs.g = <<1, 0, 1>> /\ cs.mu = <<2, -1, 2>>
    /\ cs.xtx[1][2] # 0
    /\ cs_S = S_reference(cs)

\* C10 (as stated): the final sample is taken iff tracking is on and the loop
\* ran at all: with tracking on and niter = 0 the returned sequence is empty.
C10_FinalSampleIfLoopRan ==
    Returned =>
        Len(result.elbo) = InLoopSamples(result.iterations)
                           + (IF track_elbo /\ niter >= 1 THEN 1 ELSE 0)

\* C10 (amended): the final sample is taken iff tracking is on, whether or not
\* the loop ran: with tracking on and niter = 0 the returned sequence has one
\* entry; with tracking off it is empty.
C10_FinalSampleIfTracking ==
    Returned =>
        Len(result.elbo) = InLoopSamples(result.iterations)
                           + (IF track_elbo THEN 1 ELSE 0)

C10_Witness ==
    /\ Returned /\ track_elbo /\ niter = 0
    /\ Len(result.elbo) = 1
============================================================================
